---- MODULE Spec2Model ----
(***************************************************************************)
(* latent.flow encoder / decoder models (src/latent/flow/encoder.py and    *)
(* src/latent/flow/decoder.py) as a state machine.                         *)
(*                                                                         *)
(* The two files are straight-line Python: module bodies that bind names,  *)
(* __init__ bodies that assign instance attributes, and call bodies that   *)
(* apply the sublayers held in those attributes.  Each body is written     *)
(* down statement by statement (line, what it reads, what it assigns) and  *)
(* run by a small interpreter that stops at the first read of a name or    *)
(* attribute that is not bound, as Python does (NameError, AttributeError).*)
(***************************************************************************)
EXTENDS Integers, Sequences, FiniteSets, TLC

\* Feature / latent dimensions range over 1..MaxDim, batch sizes over 1..MaxBatch.
MaxDim == 2
MaxBatch == 2

\* Width of the last hidden layer of the default hidden_units = [128, 128].
HiddenUnits == 128

(***************************************************************************)
(* Values held by names and attributes.                                    *)
(***************************************************************************)
IntVal(v) == [kind |-> "int", n |-> v, s |-> ""]
StrVal(v) == [kind |-> "str", n |-> 0, s |-> v]
\* A layer / distribution object: constructor, size argument, activation or role.
Layer(kind, units, act) == [kind |-> kind, n |-> units, s |-> act]

\* What a statement reads, in evaluation order.
Name(x) == [kind |-> "name", name |-> x, member |-> ""]
Qual(x, m) == [kind |-> "qual", name |-> x, member |-> m]
Self(a) == [kind |-> "self", name |-> a, member |-> ""]

\* The empty attribute dictionary / namespace.
EmptyDict == [a \in {} |-> 0]

\* d[k] = v
Bind(d, k, v) == [a \in (DOMAIN d) \cup {k} |-> IF a = k THEN v ELSE d[a]]

(***************************************************************************)
(* The members of the third-party packages that the two files look up.     *)
(* tfp.bijectors holds no distribution class and tfp.distributions no      *)
(* bijector.                                                               *)
(***************************************************************************)
Members(pkg) ==
    CASE pkg = "tensorflow" -> {"zeros", "keras"}
      [] pkg = "tensorflow.keras" -> {"Model", "initializers", "layers", "backend"}
      [] pkg = "tensorflow.keras.layers" -> {"Dense", "Activation"}
      [] pkg = "tensorflow_probability" -> {"layers", "distributions", "bijectors"}
      [] pkg = "tfp.layers" -> {"MultivariateNormalTriL", "KLDivergenceRegularizer"}
      [] pkg = "tfp.distributions" ->
            {"Independent", "Normal", "TransformedDistribution"}
      [] pkg = "tfp.bijectors" ->
            {"Invert", "MaskedAutoregressiveFlow", "AutoregressiveNetwork"}
      [] OTHER -> {}

\* Whether read r succeeds with instance attributes attrs and module namespace ns.
ReadOK(r, attrs, ns) ==
    CASE r.kind = "name" -> r.name \in DOMAIN ns
      [] r.kind = "qual" -> r.name \in DOMAIN ns /\ r.member \in Members(ns[r.name].s)
      [] OTHER -> r.name \in DOMAIN attrs

\* The exception a failed read raises: an unbound global is a NameError, a
\* missing member or instance attribute an AttributeError.
ReadError(r, ns) ==
    IF r.kind \in {"name", "qual"} /\ r.name \notin DOMAIN ns
    THEN "NameError" ELSE "AttributeError"

\* What the failed read was looking for.
ReadWhat(r, ns) ==
    IF r.kind = "qual" /\ r.name \in DOMAIN ns THEN r.member ELSE r.name

\* Index of the first read of reads that fails, 0 when all succeed.
FirstBadRead(reads, attrs, ns) ==
    LET bad == {i \in 1..Len(reads) : ~ReadOK(reads[i], attrs, ns)}
    IN IF bad = {} THEN 0 ELSE CHOOSE i \in bad : \A j \in bad : i <= j

(***************************************************************************)
(* Module bodies.  A module statement reads names and binds names.         *)
(***************************************************************************)
Import(line, names, pkg) ==
    [line |-> line, reads |-> << >>, binds |-> names, value |-> StrVal(pkg)]
ClassDef(line, name, base) ==
    [line |-> line, reads |-> <<base>>, binds |-> {name}, value |-> StrVal(name)]

\* encoder.py, top level
EncoderModule ==
    << Import(3, {"tf"}, "tensorflow"),
       Import(4, {"keras"}, "tensorflow.keras"),
       Import(5, {"K"}, "tensorflow.keras.backend"),
       Import(6, {"l1_l2"}, "tensorflow.keras.regularizers.l1_l2"),
       Import(7, {"layers"}, "tensorflow.keras.layers"),
       Import(8, {"losses"}, "tensorflow.keras.losses"),
       Import(10, {"tfp"}, "tensorflow_probability"),
       [line |-> 11, reads |-> <<Qual("tfp", "layers")>>, binds |-> {"tfpl"},
        value |-> StrVal("tfp.layers")],
       [line |-> 12, reads |-> <<Qual("tfp", "distributions")>>, binds |-> {"tfd"},
        value |-> StrVal("tfp.distributions")],
       [line |-> 13, reads |-> <<Qual("tfp", "bijectors")>>, binds |-> {"tfd"},
        value |-> StrVal("tfp.bijectors")],
       Import(15, {"clipped_softplus", "clipped_exp"}, ".activations"),
       Import(16, {"ColwiseMult", "DenseStack"}, ".layers"),
       ClassDef(19, "Encoder", Qual("keras", "Model")),
       ClassDef(69, "VariationalEncoder", Name("Encoder")) >>

\* decoder.py, top level
DecoderModule ==
    << Import(3, {"keras"}, "tensorflow.keras"),
       Import(4, {"K"}, "tensorflow.keras.backend"),
       Import(5, {"l1_l2"}, "tensorflow.keras.regularizers.l1_l2"),
       Import(6, {"Dense", "Activation"}, "tensorflow.keras.layers"),
       Import(8, {"DenseStack"}, ".core"),
       Import(9, {"clipped_softplus", "clipped_exp"}, ".activations"),
       Import(10, {"ColwiseMult"}, ".layers"),
       ClassDef(13, "Decoder", Name("Model")),
       ClassDef(54, "CountDecoder", Name("Decoder")),
       ClassDef(80, "PoissonDecoder", Name("CountDecoder")),
       ClassDef(98, "NegativeBinomialDecoder", Name("CountDecoder")),
       ClassDef(131, "ZINBDecoder", Name("CountDecoder")) >>

Modules == {"encoder", "decoder"}

ModuleBody(m) == IF m = "encoder" THEN EncoderModule ELSE DecoderModule

\* ns with every name of names bound to v
BindAll(ns, names, v) ==
    [a \in (DOMAIN ns) \cup names |-> IF a \in names THEN v ELSE ns[a]]

\* Runs a module body from statement i on: the namespace built, or the exception
\* of the first statement that reads an unbound name.
RECURSIVE ExecModule(_, _, _)
ExecModule(stmts, i, ns) ==
    IF i > Len(stmts)
    THEN [ns |-> ns, exc |-> "", at |-> 0, what |-> ""]
    ELSE LET st == stmts[i]
             bad == FirstBadRead(st.reads, EmptyDict, ns)
         IN IF bad # 0
            THEN [ns |-> ns, exc |-> ReadError(st.reads[bad], ns), at |-> st.line,
                  what |-> ReadWhat(st.reads[bad], ns)]
            ELSE ExecModule(stmts, i + 1, BindAll(ns, st.binds, st.value))

\* import latent.flow.<m>
LoadModule(m) == ExecModule(ModuleBody(m), 1, EmptyDict)

(***************************************************************************)
(* Constructors.  An __init__ statement reads names and attributes and     *)
(* assigns at most one instance attribute (target "" assigns none).        *)
(***************************************************************************)
Classes ==
    {"Encoder", "VariationalEncoder", "Decoder", "CountDecoder", "PoissonDecoder",
     "NegativeBinomialDecoder", "ZINBDecoder"}

EncoderClasses == {"Encoder", "VariationalEncoder"}
DecoderClasses == Classes \ EncoderClasses
CountClasses == DecoderClasses \ {"Decoder"}

ModuleOf(cls) == IF cls \in EncoderClasses THEN "encoder" ELSE "decoder"

\* The prior names VariationalEncoder.__init__ has a branch for.
KnownPriors == {"normal", "iaf"}

Stmt(line, reads, target, value) ==
    [line |-> line, reads |-> reads, target |-> target, value |-> value]

\* tfpl.MultivariateNormalTriL.params_size(d): d means and a d x d lower triangle
ParamsSize(d) == d + (d * (d + 1)) \div 2

\* Encoder.__init__
Encoder_init(cfg) ==
    << Stmt(34, << >>, "name", StrVal("encoder")),
       Stmt(35, << >>, "latent_dim", IntVal(cfg.latent_dim)),
       Stmt(36, << >>, "dropout_rate", StrVal("0.1")),
       Stmt(37, << >>, "batchnorm", StrVal(cfg.batchnorm)),
       Stmt(38, << >>, "l1", StrVal("0.")),
       Stmt(39, << >>, "l2", StrVal("0.")),
       Stmt(40, << >>, "activation", StrVal("leaky_relu")),
       Stmt(41, << >>, "hidden_units", IntVal(HiddenUnits)),
       Stmt(42, <<Qual("keras", "initializers")>>, "initializer",
            StrVal("glorot_normal")),
       Stmt(45, <<Name("DenseStack"), Self("name"), Self("dropout_rate"),
                  Self("batchnorm"), Self("l1"), Self("l2"), Self("activation"),
                  Self("initializer"), Self("hidden_units")>>,
            "dense_stack", Layer("DenseStack", HiddenUnits, "leaky_relu")),
       Stmt(55, <<Qual("layers", "Dense"), Self("latent_dim"), Self("initializer")>>,
            "final_layer", Layer("Dense", cfg.latent_dim, "linear")),
       Stmt(59, <<Qual("layers", "Activation")>>,
            "final_act", Layer("Activation", 0, "linear")) >>

\* The prior branch with an else that falls back to the 'normal' prior.
PriorBranch_elseNormal(cfg) ==
    IF cfg.prior = "iaf"
    THEN << Stmt(98, <<Qual("tfd", "TransformedDistribution")>>, "prior_dist",
                 Layer("TransformedDistribution", cfg.latent_dim, "iaf")) >>
    ELSE << Stmt(93, <<Qual("tfd", "Independent"), Qual("tfd", "Normal"),
                       Qual("tf", "zeros"), Self("latent_dim")>>,
                 "prior_dist", Layer("Independent", cfg.latent_dim, "Normal")) >>

\* The prior branch of VariationalEncoder.__init__: if / elif, no else.
PriorBranch(cfg) ==
    IF cfg.prior = "normal"
    THEN << Stmt(93, <<Qual("tfd", "Independent"), Qual("tfd", "Normal"),
                       Qual("tf", "zeros"), Self("latent_dim")>>,
                 "prior_dist", Layer("Independent", cfg.latent_dim, "Normal")) >>
    ELSE IF cfg.prior = "iaf"
    THEN << Stmt(98, <<Qual("tfd", "TransformedDistribution"), Qual("tfd", "Normal"),
                       Qual("tf", "zeros"), Self("latent_dim"), Qual("tfb", "Invert"),
                       Qual("tfb", "MaskedAutoregressiveFlow"),
                       Qual("tfb", "AutoregressiveNetwork"), Self("iaf_units")>>,
                 "prior_dist",
                 Layer("TransformedDistribution", cfg.latent_dim, "iaf")) >>
    ELSE << >>

\* VariationalEncoder.__init__ with self.prior_dist = None set before the branch.
VariationalEncoder_init_priorNone(cfg) ==
    << Stmt(79, << >>, "kld_weight", StrVal("1e-5")),
       Stmt(80, << >>, "prior", StrVal(cfg.prior)),
       Stmt(81, << >>, "iaf_units", IntVal(HiddenUnits)),
       Stmt(84, <<Qual("layers", "Dense"), Qual("tfpl", "MultivariateNormalTriL"),
                  Self("latent_dim"), Self("initializer"), Name("l1_l2"),
                  Self("l1"), Self("l2")>>,
            "mu_sigma", Layer("Dense", ParamsSize(cfg.latent_dim), "linear")),
       Stmt(90, << >>, "prior_dist", Layer("None", 0, "")),
       Stmt(91, <<Self("prior")>>, "", StrVal("")) >>
    \o PriorBranch(cfg) \o
    << Stmt(106, <<Qual("tfpl", "MultivariateNormalTriL"), Self("latent_dim"),
                   Qual("tfpl", "KLDivergenceRegularizer"), Self("prior_dist"),
                   Self("kld_weight")>>,
            "sampling", Layer("MultivariateNormalTriL", cfg.latent_dim, "kld")) >>

\* VariationalEncoder.__init__ after super().__init__(**kwargs)
VariationalEncoder_init(cfg) ==
    << Stmt(79, << >>, "kld_weight", StrVal("1e-5")),
       Stmt(80, << >>, "prior", StrVal(cfg.prior)),
       Stmt(81, << >>, "iaf_units", IntVal(HiddenUnits)),
       Stmt(84, <<Qual("layers", "Dense"), Qual("tfpl", "MultivariateNormalTriL"),
                  Self("latent_dim"), Self("initializer"), Name("l1_l2"),
                  Self("l1"), Self("l2")>>,
            "mu_sigma", Layer("Dense", ParamsSize(cfg.latent_dim), "linear")),
       Stmt(91, <<Self("prior")>>, "", StrVal("")) >>
    \o PriorBranch(cfg) \o
    << Stmt(106, <<Qual("tfpl", "MultivariateNormalTriL"), Self("latent_dim"),
                   Qual("tfpl", "KLDivergenceRegularizer"), Self("prior_dist"),
                   Self("kld_weight")>>,
            "sampling", Layer("MultivariateNormalTriL", cfg.latent_dim, "kld")) >>

\* Decoder.__init__
Decoder_init(cfg) ==
    << Stmt(28, << >>, "name", StrVal("decoder")),
       Stmt(29, << >>, "x_dim", IntVal(cfg.x_dim)),
       Stmt(32, <<Name("DenseStack"), Name("layer_name")>>,
            "dense_stack", Layer("DenseStack", HiddenUnits, "leaky_relu")),
       Stmt(40, <<Name("Dense"), Self("x_dim"), Self("initializer")>>,
            "final_layer", Layer("Dense", cfg.x_dim, "linear")),
       Stmt(44, <<Name("Activation")>>,
            "final_act", Layer("Activation", 0, "linear")) >>

\* CountDecoder.__init__ and those of its three subclasses: super().__init__(**kwargs)
\* and nothing else; _final is not invoked.
CountDecoder_init(cfg) == Decoder_init(cfg)

\* CountDecoder._final
CountDecoder_final(cfg) ==
    << Stmt(73, <<Name("Dense"), Self("x_dim"), Self("initializer")>>,
            "mean_layer", Layer("Dense", cfg.x_dim, "linear")),
       Stmt(77, <<Name("ColwiseMult")>>,
            "norm_layer", Layer("ColwiseMult", 0, "")) >>

\* PoissonDecoder._final
PoissonDecoder_final(cfg) ==
    << Stmt(90, <<Name("Dense"), Self("x_dim"), Name("clipped_exp"),
                  Self("initializer")>>,
            "mean_layer", Layer("Dense", cfg.x_dim, "clipped_exp")),
       Stmt(95, <<Name("ColwiseMult")>>,
            "norm_layer", Layer("ColwiseMult", 0, "")) >>

\* NegativeBinomialDecoder._final
NegativeBinomialDecoder_final(cfg) ==
    << Stmt(118, <<Name("Dense"), Self("x_dim"), Name("clipped_exp"),
                   Self("initializer")>>,
            "mean_layer", Layer("Dense", cfg.x_dim, "clipped_exp")),
       Stmt(123, <<Name("Dense"), Self("x_dim"), Name("clipped_softplus"),
                   Self("initializer")>>,
            "dispersion_layer", Layer("Dense", cfg.x_dim, "clipped_softplus")),
       Stmt(128, <<Name("ColwiseMult")>>,
            "norm_layer", Layer("ColwiseMult", 0, "")) >>

\* ZINBDecoder._final
ZINBDecoder_final(cfg) ==
    << Stmt(152, <<Name("Dense"), Self("x_dim"), Name("clipped_exp"),
                   Self("initializer")>>,
            "mean_layer", Layer("Dense", cfg.x_dim, "clipped_exp")),
       Stmt(157, <<Name("Dense"), Self("x_dim"), Name("clipped_softplus"),
                   Self("initializer")>>,
            "dispersion_layer", Layer("Dense", cfg.x_dim, "clipped_softplus")),
       Stmt(162, <<Name("Dense"), Self("x_dim"), Self("initializer")>>,
            "pi_layer", Layer("Dense", cfg.x_dim, "sigmoid")),
       Stmt(167, <<Name("ColwiseMult")>>,
            "norm_layer", Layer("ColwiseMult", 0, "")) >>

\* The statements cls(**cfg) runs, through the chain of super().__init__ calls.
InitStmts(cls, cfg) ==
    CASE cls = "Encoder" -> Encoder_init(cfg)
      [] cls = "VariationalEncoder" -> Encoder_init(cfg) \o VariationalEncoder_init(cfg)
      [] cls = "Decoder" -> Decoder_init(cfg)
      [] OTHER -> CountDecoder_init(cfg)

\* The state of an object under construction: its attributes, how often each was
\* assigned, and the exception that ended __init__ ("" for none).
NewObject ==
    [attrs |-> EmptyDict, created |-> EmptyDict, exc |-> "", at |-> 0, what |-> ""]

\* self.<target> = value
Assign(env, target, value) ==
    IF target = "" THEN env
    ELSE [env EXCEPT
            !.attrs = Bind(env.attrs, target, value),
            !.created = Bind(env.created, target,
                             IF target \in DOMAIN env.created
                             THEN env.created[target] + 1 ELSE 1)]

\* Runs an __init__ body from statement i on, stopping at the first failed read.
RECURSIVE Exec(_, _, _, _)
Exec(stmts, i, env, ns) ==
    IF i > Len(stmts) THEN env
    ELSE LET st == stmts[i]
             bad == FirstBadRead(st.reads, env.attrs, ns)
         IN IF bad # 0
            THEN [env EXCEPT !.exc = ReadError(st.reads[bad], ns), !.at = st.line,
                             !.what = ReadWhat(st.reads[bad], ns)]
            ELSE Exec(stmts, i + 1, Assign(env, st.target, st.value), ns)

(***************************************************************************)
(* Forward passes.  A call statement applies the sublayer held in one      *)
(* instance attribute to local tensors and binds the result to a local.    *)
(* A tensor is described by the attributes it went through, the inputs it  *)
(* depends on, its shape (batch, width) and what is known of its sign.     *)
(***************************************************************************)
Tensor(layers, deps, shape, sign) ==
    [layers |-> layers, deps |-> deps, shape |-> shape, sign |-> sign]

CallStmt(line, layer, lhs, args) ==
    [line |-> line, layer |-> layer, lhs |-> lhs, args |-> args, store |-> ""]

\* Encoder.call with the hidden activations kept on the instance (self.h = ...).
Encoder_call_keepsHidden ==
    << [line |-> 63, layer |-> "dense_stack", lhs |-> "h", args |-> <<"inputs">>,
        store |-> "h"],
       CallStmt(64, "final_layer", "h", <<"h">>),
       CallStmt(65, "final_act", "outputs", <<"h">>) >>

\* Encoder.call
Encoder_call ==
    << CallStmt(63, "dense_stack", "h", <<"inputs">>),
       CallStmt(64, "final_layer", "h", <<"h">>),
       CallStmt(65, "final_act", "outputs", <<"h">>) >>

\* VariationalEncoder.call
VariationalEncoder_call ==
    << CallStmt(116, "dense_stack", "h", <<"inputs">>),
       CallStmt(117, "mu_sigma", "h", <<"h">>),
       CallStmt(118, "sampling", "outputs", <<"h">>) >>

\* Decoder.call
Decoder_call ==
    << CallStmt(48, "dense_stack", "h", <<"inputs">>),
       CallStmt(49, "final_layer", "h", <<"h">>),
       CallStmt(50, "final_act", "outputs", <<"h">>) >>

\* CountDecoder.call, inherited by PoissonDecoder
CountDecoder_call ==
    << CallStmt(65, "core_stack", "h", <<"h">>),
       CallStmt(67, "mean_layer", "mean", <<"h">>),
       CallStmt(68, "norm_layer", "outputs", <<"mean", "sf">>) >>

\* NegativeBinomialDecoder.call
NegativeBinomialDecoder_call ==
    << CallStmt(109, "core_stack", "h", <<"h">>),
       CallStmt(111, "mean_layer", "mean", <<"h">>),
       CallStmt(112, "norm_layer", "mean", <<"mean", "sf">>),
       CallStmt(113, "dispersion_layer", "disp", <<"h">>) >>

\* ZINBDecoder.call
ZINBDecoder_call ==
    << CallStmt(142, "core_stack", "h", <<"h">>),
       CallStmt(144, "mean_layer", "mean", <<"h">>),
       CallStmt(145, "norm_layer", "mean", <<"mean", "sf">>),
       CallStmt(146, "dispersion_layer", "disp", <<"h">>),
       CallStmt(147, "pi_layer", "pi", <<"h">>) >>

\* The call body that cls resolves to.
CallStmts(cls) ==
    CASE cls = "Encoder" -> Encoder_call
      [] cls = "VariationalEncoder" -> VariationalEncoder_call
      [] cls = "Decoder" -> Decoder_call
      [] cls = "NegativeBinomialDecoder" -> NegativeBinomialDecoder_call
      [] cls = "ZINBDecoder" -> ZINBDecoder_call
      [] OTHER -> CountDecoder_call

\* The locals each call returns, in order.
CallReturn(cls) ==
    CASE cls = "NegativeBinomialDecoder" -> <<"mean", "disp">>
      [] cls = "ZINBDecoder" -> <<"mean", "disp", "pi">>
      [] OTHER -> <<"outputs">>

\* The locals at the start of a call: the input tensor, which the count decoders
\* unpack into the latent tensor and the size factor (h, sf = inputs).
CallLocals(cls, inp) ==
    IF cls \in CountClasses
    THEN [v \in {"h", "sf"} |->
            IF v = "h" THEN Tensor(<< >>, {"h"}, <<inp.B, inp.d>>, "any")
            ELSE Tensor(<< >>, {"sf"}, <<inp.B, 1>>, inp.sf)]
    ELSE [v \in {"inputs"} |-> Tensor(<< >>, {"inputs"}, <<inp.B, inp.d>>, "any")]

\* The attributes a call body reads.
CallReads(cls) == {CallStmts(cls)[i].layer : i \in 1..Len(CallStmts(cls))}

\* The range of an output activation.
ActSign(act) ==
    CASE act \in {"clipped_exp", "clipped_softplus"} -> "pos"
      [] act = "sigmoid" -> "unit"
      [] OTHER -> "any"

\* The result of applying the layer object held in attribute attr to tensors args.
ApplyLayer(layer, attr, args) ==
    LET x == args[1]
        through == Append(x.layers, attr)
    IN CASE layer.kind \in {"DenseStack", "Dense"} ->
              Tensor(through, x.deps, <<x.shape[1], layer.n>>, ActSign(layer.s))
         [] layer.kind = "ColwiseMult" ->
              Tensor(through, x.deps \cup args[2].deps, x.shape,
                     IF x.sign = "pos" /\ args[2].sign = "pos" THEN "pos" ELSE "any")
         [] layer.kind = "MultivariateNormalTriL" ->
              Tensor(through, x.deps, <<x.shape[1], layer.n>>, "any")
         [] OTHER -> Tensor(through, x.deps, x.shape, x.sign)

\* Whether the layer rejects the width of its input: a dense stack is built for the
\* width of its first input, and the sampling layer needs params_size(n) parameters.
ShapeError(layer, x, in_dim) ==
    CASE layer.kind = "DenseStack" -> in_dim \notin {0, x.shape[2]}
      [] layer.kind = "MultivariateNormalTriL" -> x.shape[2] # ParamsSize(layer.n)
      [] OTHER -> FALSE

\* The auxiliary losses a layer adds when it is applied: the sampling layer's
\* activity regularizer adds the weighted KL divergence to the prior.
LossesOf(layer) == IF layer.kind = "MultivariateNormalTriL" /\ layer.s = "kld" THEN 1 ELSE 0

\* Runs a call body from statement i on.
RECURSIVE ExecCall(_, _, _)
ExecCall(stmts, i, env) ==
    IF i > Len(stmts) THEN env
    ELSE LET st == stmts[i]
         IN IF st.layer \notin DOMAIN env.attrs
            THEN [env EXCEPT !.exc = "AttributeError", !.at = st.line,
                             !.what = st.layer]
            ELSE LET layer == env.attrs[st.layer]
                     args == [k \in 1..Len(st.args) |-> env.locals[st.args[k]]]
                 IN IF ShapeError(layer, args[1], env.in_dim)
                    THEN [env EXCEPT !.exc = "ValueError", !.at = st.line,
                                     !.what = st.layer]
                    ELSE ExecCall(stmts, i + 1,
                           [env EXCEPT
                              !.locals = Bind(env.locals, st.lhs,
                                              ApplyLayer(layer, st.layer, args)),
                              !.attrs = IF st.store = "" THEN env.attrs
                                        ELSE Bind(env.attrs, st.store, layer),
                              !.losses = env.losses + LossesOf(layer),
                              !.in_dim = IF layer.kind = "DenseStack"
                                         THEN args[1].shape[2] ELSE env.in_dim])

\* obj(inp) for an instance obj of cls.
CallOutcome(obj, cls, inp) ==
    LET env == ExecCall(CallStmts(cls), 1,
                 [locals |-> CallLocals(cls, inp), attrs |-> obj.attrs, exc |-> "",
                  at |-> 0, what |-> "", losses |-> 0, in_dim |-> obj.in_dim])
        ret == CallReturn(cls)
    IN [env |-> env,
        value |-> IF env.exc # "" THEN << >>
                  ELSE [k \in 1..Len(ret) |-> env.locals[ret[k]]]]

(***************************************************************************)
(* The state: the modules imported, the instance held for each class (one  *)
(* variable per class in the client session), and the last request with    *)
(* its outcome.                                                            *)
(***************************************************************************)
VARIABLES loaded, inst, lastOp, out

vars == <<loaded, inst, lastOp, out>>

NoObject == [alive |-> FALSE, attrs |-> EmptyDict, created |-> EmptyDict, in_dim |-> 0]

NoCfg == [latent_dim |-> 0, x_dim |-> 0, prior |-> "", batchnorm |-> ""]
NoInput == [B |-> 0, d |-> 0, sf |-> ""]

Outcome(kind, stage, env, attrs, value, losses) ==
    [kind |-> kind, stage |-> stage, exc |-> env.exc, at |-> env.at,
     what |-> env.what, attrs |-> attrs, value |-> value, losses |-> losses]

Priors == {"normal", "iaf", "bogus"}

\* The keyword arguments a class is constructed with.
Cfgs(cls) ==
    IF cls \in EncoderClasses
    THEN {[latent_dim |-> l, x_dim |-> 0, prior |-> p, batchnorm |-> b] :
            l \in 1..MaxDim, b \in {"True", "False"},
            p \in IF cls = "VariationalEncoder" THEN Priors ELSE {""}}
    ELSE {[latent_dim |-> 0, x_dim |-> x, prior |-> "", batchnorm |-> b] :
            x \in 1..MaxDim, b \in {"True", "False"}}

\* The inputs of a call: a (B, d) tensor and, for the count decoders, a size factor
\* that is positive or not.
Inputs == [B : 1..MaxBatch, d : 1..MaxDim, sf : {"pos", "nonpos"}]

Init ==
    /\ loaded = {}
    /\ inst = [c \in Classes |-> NoObject]
    /\ lastOp = [op |-> "none", cls |-> "", cfg |-> NoCfg, inp |-> NoInput]
    /\ out = Outcome("none", "", NewObject, EmptyDict, << >>, 0)

\* obj = cls(**cfg), importing the module of cls first.
Construct(cls, cfg) ==
    LET load == LoadModule(ModuleOf(cls))
        env == Exec(InitStmts(cls, cfg), 1, NewObject, load.ns)
    IN /\ lastOp' = [op |-> "construct", cls |-> cls, cfg |-> cfg, inp |-> NoInput]
       /\ IF load.exc # ""
          THEN /\ out' = Outcome("raise", "import", load, EmptyDict, << >>, 0)
               /\ UNCHANGED <<loaded, inst>>
          ELSE /\ loaded' = loaded \cup {ModuleOf(cls)}
               /\ IF env.exc # ""
                  THEN /\ out' = Outcome("raise", "__init__", env, env.attrs, << >>, 0)
                       /\ UNCHANGED inst
                  ELSE /\ out' = Outcome("instance", "__init__", env, env.attrs, << >>, 0)
                       /\ inst' = [inst EXCEPT
                                     ![cls] = [alive |-> TRUE, attrs |-> env.attrs,
                                               created |-> env.created, in_dim |-> 0]]

\* out = obj(inp) on the instance held for cls.
Call(cls, inp) ==
    /\ inst[cls].alive
    /\ LET r == CallOutcome(inst[cls], cls, inp)
       IN /\ lastOp' = [op |-> "call", cls |-> cls, cfg |-> NoCfg, inp |-> inp]
          /\ inst' = [inst EXCEPT ![cls].attrs = r.env.attrs,
                                  ![cls].in_dim = r.env.in_dim]
          /\ out' = Outcome(IF r.env.exc # "" THEN "raise" ELSE "return", "call",
                            r.env, r.env.attrs, r.value, r.env.losses)
    /\ UNCHANGED loaded

Next ==
    \/ \E cls \in Classes : \E cfg \in Cfgs(cls) : Construct(cls, cfg)
    \/ \E cls \in Classes : \E inp \in Inputs : Call(cls, inp)

Spec == Init /\ [][Next]_vars
(***************************************************************************)
(* Properties.                                                             *)
(***************************************************************************)
Constructing(classes) == lastOp.op = "construct" /\ lastOp.cls \in classes

\* The output head each returned tensor comes from: the attribute applied to the
\* backbone output.
Heads(value) == [k \in 1..Len(value) |-> value[k].layers[2]]

\* C1: a constructed decoder of any of the five classes holds every sublayer its
\* call reads, each assigned exactly once during construction.
C1_DecoderOwnsSublayers ==
    Constructing(DecoderClasses) =>
        /\ out.kind = "instance"
        /\ \A a \in CallReads(lastOp.cls) :
              /\ a \in DOMAIN inst[lastOp.cls].created
              /\ inst[lastOp.cls].created[a] = 1

\* C2: VariationalEncoder(prior = p) with p outside {'normal', 'iaf'} raises inside
\* the constructor, and no instance with such a prior exists.
C2_UnknownPriorRaisesInConstructor ==
    /\ (Constructing({"VariationalEncoder"}) /\ lastOp.cfg.prior \notin KnownPriors)
          => (out.kind = "raise" /\ out.stage = "__init__")
    /\ inst["VariationalEncoder"].alive
          => inst["VariationalEncoder"].attrs["prior"].s \in KnownPriors

C2_Witness ==
    /\ Constructing({"VariationalEncoder"})
    /\ lastOp.cfg.prior = "bogus"
    /\ out.kind = "raise"
    /\ out.stage = "__init__"

\* C3, as stated: VariationalEncoder(prior = p) with p outside {'normal', 'iaf'}
\* completes, giving an instance with neither prior_dist nor sampling assigned.
C3_UnknownPriorConstructsSilently ==
    (Constructing({"VariationalEncoder"}) /\ lastOp.cfg.prior \notin KnownPriors)
        => /\ out.kind = "instance"
           /\ "prior_dist" \notin DOMAIN out.attrs
           /\ "sampling" \notin DOMAIN out.attrs

\* C3, amended: with p outside {'normal', 'iaf'} no prior_dist is assigned, and the
\* constructor raises AttributeError on self.prior_dist while building the sampling
\* layer (line 106), so that no sampling layer is assigned either.
C3_UnknownPriorFailsBuildingSampling ==
    (Constructing({"VariationalEncoder"}) /\ lastOp.cfg.prior \notin KnownPriors)
        => /\ out.kind = "raise"
           /\ out.exc = "AttributeError"
           /\ out.what = "prior_dist"
           /\ out.at = 106
           /\ "prior_dist" \notin DOMAIN out.attrs
           /\ "sampling" \notin DOMAIN out.attrs

C3_Witness ==
    /\ Constructing({"VariationalEncoder"})
    /\ lastOp.cfg.prior \notin KnownPriors
    /\ out.what = "prior_dist"
    /\ {"prior", "mu_sigma"} \subseteq DOMAIN out.attrs

\* C4: VariationalEncoder(prior = 'normal' or 'iaf') succeeds, with prior_dist
\* assigned exactly once (an independent Gaussian, or a flow-transformed one) and
\* the sampling layer built after it.
C4_KnownPriorConstructs ==
    (Constructing({"VariationalEncoder"}) /\ lastOp.cfg.prior \in KnownPriors)
        => /\ out.kind = "instance"
           /\ {"prior_dist", "sampling"} \subseteq DOMAIN out.attrs
           /\ inst["VariationalEncoder"].created["prior_dist"] = 1
           /\ out.attrs["prior_dist"].kind =
                 (IF lastOp.cfg.prior = "normal" THEN "Independent"
                  ELSE "TransformedDistribution")

\* C5: every call of a constructed PoissonDecoder returns the mean alone, of a
\* NegativeBinomialDecoder the mean and the dispersion, of a ZINBDecoder the mean,
\* the dispersion and the zero-inflation probability, in that order, each from the
\* head of that name.
C5_CountDecoderOutputs ==
    Constructing({"PoissonDecoder", "NegativeBinomialDecoder", "ZINBDecoder"}) =>
        /\ out.kind = "instance"
        /\ \A inp \in Inputs :
              LET r == CallOutcome(inst[lastOp.cls], lastOp.cls, inp)
              IN /\ r.env.exc = ""
                 /\ Heads(r.value) =
                       CASE lastOp.cls = "PoissonDecoder" -> <<"mean_layer">>
                         [] lastOp.cls = "NegativeBinomialDecoder" ->
                               <<"mean_layer", "dispersion_layer">>
                         [] OTHER -> <<"mean_layer", "dispersion_layer", "pi_layer">>

\* C6: every entry of the mean that a constructed PoissonDecoder returns is
\* strictly positive, whatever the latent tensor and the size factor.
C6_PoissonMeanPositive ==
    Constructing({"PoissonDecoder"}) =>
        /\ out.kind = "instance"
        /\ \A inp \in Inputs :
              LET r == CallOutcome(inst["PoissonDecoder"], "PoissonDecoder", inp)
              IN r.env.exc = "" /\ r.value[1].sign = "pos"

\* C7: in what a constructed NegativeBinomialDecoder or ZINBDecoder returns, the
\* dispersion and the zero-inflation probability do not depend on the size factor
\* and do not pass through the normalisation layer.
C7_SizeFactorRescalesMeanOnly ==
    Constructing({"NegativeBinomialDecoder", "ZINBDecoder"}) =>
        /\ out.kind = "instance"
        /\ \A inp \in Inputs :
              LET r == CallOutcome(inst[lastOp.cls], lastOp.cls, inp)
              IN /\ r.env.exc = ""
                 /\ \A k \in 2..Len(r.value) :
                       /\ "sf" \notin r.value[k].deps
                       /\ \A j \in 1..Len(r.value[k].layers) :
                             r.value[k].layers[j] # "norm_layer"

\* C8: a call leaves the attributes of every instance as they were: the
\* hyperparameters and the sublayers bound at construction, none added, none
\* rebound.
C8_CallAssignsNoAttribute ==
    [][lastOp'.op = "call" =>
          \A c \in Classes :
              /\ inst'[c].alive = inst[c].alive
              /\ inst'[c].attrs = inst[c].attrs
              /\ inst'[c].created = inst[c].created]_vars

C8_Witness ==
    /\ lastOp.op = "call"
    /\ lastOp.cls = "Encoder"
    /\ out.kind = "return"
    /\ inst["Encoder"].in_dim = lastOp.inp.d
    /\ {"latent_dim", "dense_stack", "final_layer", "final_act"}
          \subseteq DOMAIN inst["Encoder"].attrs

\* C9: every call of a constructed VariationalEncoder adds exactly one KL loss and
\* returns the sampled latent tensor alone.
C9_VariationalCallAddsOneKL ==
    (Constructing({"VariationalEncoder"}) /\ lastOp.cfg.prior \in KnownPriors) =>
        /\ out.kind = "instance"
        /\ \A inp \in Inputs :
              LET r == CallOutcome(inst["VariationalEncoder"], "VariationalEncoder", inp)
              IN /\ r.env.exc = ""
                 /\ r.env.losses = 1
                 /\ Len(r.value) = 1
                 /\ r.value[1].layers = <<"dense_stack", "mu_sigma", "sampling">>

\* C10: an Encoder maps a (B, x_dim) input to a (B, latent_dim) output, and a
\* Decoder constructed with x_dim maps any (B, latent_dim) tensor to (B, x_dim).
C10_RoundTripShape ==
    /\ (lastOp.op = "call" /\ lastOp.cls = "Encoder" /\ out.kind = "return")
          => out.value[1].shape =
                <<lastOp.inp.B, inst["Encoder"].attrs["latent_dim"].n>>
    /\ Constructing({"Decoder"}) =>
          /\ out.kind = "instance"
          /\ \A inp \in Inputs :
                LET r == CallOutcome(inst["Decoder"], "Decoder", inp)
                IN /\ r.env.exc = ""
                   /\ r.value[1].shape = <<inp.B, lastOp.cfg.x_dim>>
====
